---- MODULE Spec2Model ----
(***************************************************************************)
(* Model of src/app.py (Calendario Inteligente): the ICS feed client, the  *)
(* background refresh loop, the weekly routine expansion and the per-month *)
(* event index.                                                            *)
(*                                                                         *)
(* Encodings.  A Python string that the program only compares or orders is *)
(* a tuple of code points (titles) or of characters (URLs); a date string  *)
(* "YYYY-MM-DD" is the tuple <<year, month, day>> of its three fields; a   *)
(* datetime.date is the record [year, month, day].  Python's None (and the *)
(* empty string where the code only tests truthiness) is the empty tuple.  *)
(***************************************************************************)
EXTENDS Integers, Sequences, FiniteSets, TLC

None == << >>

(***************************************************************************)
(* Strings                                                                 *)
(***************************************************************************)

\* Python's str < str: lexicographic on code points, a proper prefix first.
StrLess(a, b) ==
    \E k \in 1..(Len(b)) :
        /\ \A j \in 1..(k - 1) : j <= Len(a) /\ a[j] = b[j]
        /\ k - 1 <= Len(a)
        /\ (k > Len(a) \/ a[k] < b[k])

T_A == <<65>>
T_B == <<66>>
T_a == <<97>>
T_Evento == <<69, 118, 101, 110, 116, 111>>

(***************************************************************************)
(* Dates: datetime.date, calendar.monthrange, strftime / strptime          *)
(***************************************************************************)

IsLeap(y) == (y % 4 = 0) /\ ((y % 100 # 0) \/ (y % 400 = 0))

\* calendar.monthrange(year, month)[1]
DaysInMonth(y, m) ==
    IF m = 2 THEN (IF IsLeap(y) THEN 29 ELSE 28)
    ELSE IF m \in {4, 6, 9, 11} THEN 30 ELSE 31

DaysBeforeYear(y) ==
    LET p == y - 1 IN p * 365 + (p \div 4) - (p \div 100) + (p \div 400)

RECURSIVE DaysBeforeMonth(_, _)
DaysBeforeMonth(y, m) ==
    IF m <= 1 THEN 0 ELSE DaysBeforeMonth(y, m - 1) + DaysInMonth(y, m - 1)

ToOrdinal(d) == DaysBeforeYear(d.year) + DaysBeforeMonth(d.year, d.month) + d.day

\* datetime.date.weekday(): 0 = Monday ... 6 = Sunday
weekday(d) == (ToOrdinal(d) + 6) % 7

Date(y, m, d) == [year |-> y, month |-> m, day |-> d]

\* date <= date
DateLE(a, b) ==
    \/ a.year < b.year
    \/ a.year = b.year /\ a.month < b.month
    \/ a.year = b.year /\ a.month = b.month /\ a.day <= b.day

\* d + timedelta(days=1), d - timedelta(days=1)
NextDay(d) ==
    IF d.day < DaysInMonth(d.year, d.month) THEN Date(d.year, d.month, d.day + 1)
    ELSE IF d.month < 12 THEN Date(d.year, d.month + 1, 1)
    ELSE Date(d.year + 1, 1, 1)

PrevDay(d) ==
    IF d.day > 1 THEN Date(d.year, d.month, d.day - 1)
    ELSE IF d.month > 1 THEN Date(d.year, d.month - 1, DaysInMonth(d.year, d.month - 1))
    ELSE Date(d.year - 1, 12, 31)

\* d.strftime("%Y-%m-%d")
to_date_str(d) == <<d.year, d.month, d.day>>

\* strptime(s, "%Y-%m-%d") succeeds
DateStrOk(s) ==
    /\ Len(s) = 3
    /\ s[1] >= 1
    /\ s[2] \in 1..12
    /\ s[3] \in 1..DaysInMonth(s[1], s[2])

\* dt.datetime.strptime(s, "%Y-%m-%d").date(), where DateStrOk(s); it raises otherwise
from_date_str(s) == Date(s[1], s[2], s[3])

(***************************************************************************)
(* URLs: add_source's validation                                           *)
(***************************************************************************)

LowerChar(c) ==
    CASE c = "H" -> "h"
      [] c = "T" -> "t"
      [] c = "P" -> "p"
      [] c = "S" -> "s"
      [] c = "F" -> "f"
      [] c = "A" -> "a"
      [] c = "B" -> "b"
      [] c = "X" -> "x"
      [] OTHER -> c

\* str.lower()
Lower(s) == [k \in 1..Len(s) |-> LowerChar(s[k])]

RECURSIVE LStrip(_)
LStrip(s) == IF s # << >> /\ Head(s) = " " THEN LStrip(Tail(s)) ELSE s

RECURSIVE RStrip(_)
RStrip(s) ==
    IF s # << >> /\ s[Len(s)] = " " THEN RStrip(SubSeq(s, 1, Len(s) - 1)) ELSE s

\* str.strip()
Strip(s) == RStrip(LStrip(s))

\* str.startswith(prefix)
StartsWith(s, prefix) ==
    Len(s) >= Len(prefix) /\ SubSeq(s, 1, Len(prefix)) = prefix

S_http == <<"h", "t", "t", "p">>
S_https == <<"h", "t", "t", "p", "s">>

\* the scheme of a URL: what precedes its first ":", lower-cased; None without ":"
RECURSIVE SchemeUpTo(_, _)
SchemeUpTo(s, k) ==
    IF k > Len(s) THEN None
    ELSE IF s[k] = ":" THEN Lower(SubSeq(s, 1, k - 1))
    ELSE SchemeUpTo(s, k + 1)

Scheme(s) == SchemeUpTo(Strip(s), 1)

HasHttpScheme(s) == Scheme(s) \in {S_http, S_https}

\* line 124: url.lower().startswith("http"), of the stripped url
UrlAccepted(url) == StartsWith(Lower(url), S_http)

\* add_source without the membership test of line 127
add_source_NoMembershipTest(url_in, self_urls, file) ==
    LET url == Strip(url_in) IN
    IF ~UrlAccepted(url)
    THEN [ok |-> FALSE, msg |-> "URL invalida", urls |-> self_urls, file |-> file]
    ELSE [ok |-> TRUE, msg |-> "Fonte ICS adicionada",
          urls |-> Append(file, url), file |-> Append(file, url)]

\* ICSClient.add_source as a function of the persisted list:
\* [ok, msg, urls (self.urls afterwards), file (the persisted list afterwards)]
add_source(url_in, self_urls, file) ==
    LET url == Strip(url_in) IN
    IF ~UrlAccepted(url)
    THEN [ok |-> FALSE, msg |-> "URL invalida", urls |-> self_urls, file |-> file]
    ELSE LET loaded == file IN
         IF \A k \in 1..Len(loaded) : loaded[k] # url
         THEN [ok |-> TRUE, msg |-> "Fonte ICS adicionada",
               urls |-> Append(loaded, url), file |-> Append(loaded, url)]
         ELSE [ok |-> TRUE, msg |-> "Fonte ICS adicionada", urls |-> loaded, file |-> file]

(***************************************************************************)
(* Feed parsing: the body of fetch_all's loop                              *)
(***************************************************************************)

\* dt.date.today() of the run
Today == Date(2024, 1, 15)

\* dt_to_local_date_time: <<date, [hh, mm] or None>>.  An aware datetime is
\* converted to the local zone: shift is the local zone's offset minus its
\* own, in minutes.
dt_to_local_date_time(dtv) ==
    IF dtv.kind = "aware" THEN
        LET t == dtv.hour * 60 + dtv.minute + dtv.shift
            d == IF t < 0 THEN PrevDay(dtv.date)
                 ELSE IF t >= 1440 THEN NextDay(dtv.date) ELSE dtv.date
            u == (t + 1440) % 1440
        IN <<d, <<u \div 60, u % 60>>>>
    ELSE IF dtv.kind = "naive" THEN <<dtv.date, <<dtv.hour, dtv.minute>>>>
    ELSE IF dtv.kind = "date" THEN <<dtv.date, None>>
    ELSE <<Today, None>>

\* comp.get("dtstart") is a list (several DTSTART lines): .dt raises AttributeError
DtRaises(dtstart) == dtstart[1].kind = "list"

\* lines 148-174: the occurrence of one VEVENT
IcsEvent(i, url, comp, total) ==
    LET uid == IF comp.uid # None THEN comp.uid ELSE <<"u", i, total>>
        summary == IF comp.summary # None THEN comp.summary ELSE T_Evento
        dtm == dt_to_local_date_time(comp.dtstart[1])
        link == IF comp.url # None THEN comp.url ELSE comp.desc_url
    IN [id |-> <<"ics", i, uid>>,
        title |-> summary,
        date |-> to_date_str(dtm[1]),
        time |-> dtm[2],
        source |-> "ics",
        meta |-> [link |-> link, feed |-> url],
        color |-> "ics"]

\* lines 147-175: for comp in cal.walk("vevent"), from component k on
RECURSIVE WalkComps(_, _, _, _, _, _)
WalkComps(i, url, comps, k, all_events, total) ==
    IF k > Len(comps) THEN [all_events |-> all_events, total |-> total, raised |-> FALSE]
    ELSE IF comps[k].dtstart = None
         THEN WalkComps(i, url, comps, k + 1, all_events, total)
    ELSE IF DtRaises(comps[k].dtstart)
         THEN [all_events |-> all_events, total |-> total, raised |-> TRUE]
    ELSE WalkComps(i, url, comps, k + 1,
                   Append(all_events, IcsEvent(i, url, comps[k], total)), total + 1)

\* a fetch whose failure discards what the cycle has collected so far
FetchOne_FailureDiscards(i, url, resp, all_events, total, errors) ==
    IF ~resp.ok
    THEN [all_events |-> << >>, total |-> 0, errors |-> errors + 1]
    ELSE LET w == WalkComps(i, url, resp.comps, 1, all_events, total) IN
         [all_events |-> w.all_events, total |-> w.total,
          errors |-> IF w.raised THEN errors + 1 ELSE errors]

\* lines 143-178: one iteration of the loop over urls; resp.ok is FALSE when
\* requests.get, raise_for_status or from_ical raises
FetchOne(i, url, resp, all_events, total, errors) ==
    IF ~resp.ok
    THEN [all_events |-> all_events, total |-> total, errors |-> errors + 1]
    ELSE LET w == WalkComps(i, url, resp.comps, 1, all_events, total) IN
         [all_events |-> w.all_events, total |-> w.total,
          errors |-> IF w.raised THEN errors + 1 ELSE errors]

\* a status that reports any failure as the failure of all sources
StatusOf_AnyFailureIsTotal(total, errors) ==
    IF errors # 0 THEN <<"ICS: erro ao carregar fontes">>
    ELSE <<"ICS: ", total, " eventos">>

\* lines 181-186: the status string of a cycle over a non-empty list
StatusOf(total, errors) ==
    IF errors # 0 /\ total # 0 THEN <<"ICS: ", total, " eventos, ", errors, " falhas">>
    ELSE IF errors # 0 /\ total = 0 THEN <<"ICS: erro ao carregar fontes">>
    ELSE <<"ICS: ", total, " eventos">>

ST_sem_fontes == <<"ICS: sem fontes">>
ST_carregando == <<"ICS: carregando...">>

(***************************************************************************)
(* Routines                                                                *)
(***************************************************************************)

\* an expansion that starts the day after the routine's start date
RECURSIVE ExpandDays_AfterStart(_, _, _, _, _)
ExpandDays_AfterStart(r, cur, last, start, end) ==
    IF ~DateLE(cur, last) THEN << >>
    ELSE LET rest == ExpandDays_AfterStart(r, NextDay(cur), last, start, end)
             hit == /\ \E k \in 1..Len(r.days_of_week) : r.days_of_week[k] = weekday(cur)
                    /\ DateLE(start, cur) /\ start # cur
                    /\ (end = None \/ DateLE(cur, end[1]))
         IN IF hit
            THEN <<[id |-> <<"routine", r.id, to_date_str(cur)>>,
                    title |-> r.title,
                    date |-> to_date_str(cur),
                    time |-> r.time,
                    source |-> "routine",
                    meta |-> [link |-> None, feed |-> None],
                    color |-> "routine"]>> \o rest
            ELSE rest

\* lines 760-772: while cur <= last
RECURSIVE ExpandDays(_, _, _, _, _)
ExpandDays(r, cur, last, start, end) ==
    IF ~DateLE(cur, last) THEN << >>
    ELSE LET rest == ExpandDays(r, NextDay(cur), last, start, end)
             hit == /\ \E k \in 1..Len(r.days_of_week) : r.days_of_week[k] = weekday(cur)
                    /\ DateLE(start, cur)
                    /\ (end = None \/ DateLE(cur, end[1]))
         IN IF hit
            THEN <<[id |-> <<"routine", r.id, to_date_str(cur)>>,
                    title |-> r.title,
                    date |-> to_date_str(cur),
                    time |-> r.time,
                    source |-> "routine",
                    meta |-> [link |-> None, feed |-> None],
                    color |-> "routine"]>> \o rest
            ELSE rest

\* lines 747-773: for r in self.routines, from routine k on
RECURSIVE ExpandFrom(_, _, _, _)
ExpandFrom(rts, k, first, last) ==
    IF k > Len(rts) THEN << >>
    ELSE LET r == rts[k] IN
         IF r.type # "weekly" THEN ExpandFrom(rts, k + 1, first, last)
         ELSE IF ~DateStrOk(r.start_date) THEN ExpandFrom(rts, k + 1, first, last)
         ELSE LET start == from_date_str(r.start_date)
                  end == IF r.end_date # None THEN <<from_date_str(r.end_date)>> ELSE None
              IN ExpandDays(r, first, last, start, end)
                 \o ExpandFrom(rts, k + 1, first, last)

expand_routines_for_month(rts, year, month) ==
    ExpandFrom(rts, 1, Date(year, month, 1), Date(year, month, DaysInMonth(year, month)))

(***************************************************************************)
(* The month index                                                         *)
(***************************************************************************)

\* a filter that keeps every well-formed date of the requested year
RECURSIVE InMonth_YearOnly(_, _, _)
InMonth_YearOnly(evs, year, month) ==
    IF evs = << >> THEN << >>
    ELSE LET e == Head(evs)
             keep == /\ DateStrOk(e.date)
                     /\ from_date_str(e.date).year = year
         IN (IF keep THEN <<e>> ELSE << >>) \o InMonth_YearOnly(Tail(evs), year, month)

\* lines 555-568: the events of a list whose date parses and lies in the month
RECURSIVE InMonth(_, _, _)
InMonth(evs, year, month) ==
    IF evs = << >> THEN << >>
    ELSE LET e == Head(evs)
             keep == /\ DateStrOk(e.date)
                     /\ from_date_str(e.date).year = year
                     /\ from_date_str(e.date).month = month
         IN (IF keep THEN <<e>> ELSE << >>) \o InMonth(Tail(evs), year, month)

EmptyMap == [ds \in {} |-> << >>]

\* lines 572-576: m.setdefault(ds, []).append(e), from event k on
RECURSIVE GroupByDate(_, _, _)
GroupByDate(evs, k, m) ==
    IF k > Len(evs) THEN m
    ELSE LET e == evs[k]
             ds == e.date
         IN IF ds = None THEN GroupByDate(evs, k + 1, m)
            ELSE IF ds \in DOMAIN m
                 THEN GroupByDate(evs, k + 1, [m EXCEPT ![ds] = Append(@, e)])
                 ELSE GroupByDate(evs, k + 1,
                         [x \in DOMAIN m \cup {ds} |-> IF x = ds THEN <<e>> ELSE m[x]])

\* line 579: the first component of the sort key
ALL_DAY_KEY == 999

TimeKey(ev) == IF ev.time = None THEN ALL_DAY_KEY ELSE ev.time[1] * 60 + ev.time[2]

\* line 579: key(a) < key(b) on the tuples (time key, title)
KeyLess(a, b) ==
    \/ TimeKey(a) < TimeKey(b)
    \/ TimeKey(a) = TimeKey(b) /\ StrLess(a.title, b.title)

\* list.sort is stable: x goes before the first element whose key is greater
RECURSIVE InsertSorted(_, _)
InsertSorted(s, x) ==
    IF s = << >> THEN <<x>>
    ELSE IF KeyLess(x, Head(s)) THEN <<x>> \o s
    ELSE <<Head(s)>> \o InsertSorted(Tail(s), x)

RECURSIVE SortFrom(_, _, _)
SortFrom(lst, k, acc) ==
    IF k > Len(lst) THEN acc ELSE SortFrom(lst, k + 1, InsertSorted(acc, lst[k]))

\* lst.sort(key=...)
SortEvents(lst) == SortFrom(lst, 1, << >>)

\* SmartCalendarApp.events_map_for_month over the three collections it reads
events_map_for_month(ue, cache, rts, year, month) ==
    LET evs == InMonth(ue, year, month) \o InMonth(cache, year, month)
               \o expand_routines_for_month(rts, year, month)
        m == GroupByDate(evs, 1, EmptyMap)
    IN [ds \in DOMAIN m |-> SortEvents(m[ds])]

\* SmartCalendarApp.events_for_date
events_for_date(ue, cache, rts, d) ==
    LET ds == to_date_str(d)
        m == events_map_for_month(ue, cache, rts, d.year, d.month)
    IN IF ds \in DOMAIN m THEN m[ds] ELSE << >>

(***************************************************************************)
(* Bounds and inputs                                                       *)
(***************************************************************************)

\* fetch cycles the refresh loop may start, and wizard runs of the foreground
MaxCycles == 1
MaxRefresh == 2
MaxWizards == 1
\* events and routines the user may create, months the view may move from today's
MaxCreated == 2
NavSpan == 1

U_A == <<"h", "t", "t", "p", ":", "/", "/", "a">>
U_B == <<"h", "t", "t", "p", "s", ":", "/", "/", "b">>
U_upper == <<" ", "H", "T", "T", "P", ":", "/", "/", "a", " ">>
U_httpx == <<"h", "t", "t", "p", "x", ":", "/", "/", "a">>
U_ftp == <<"f", "t", "p", ":", "/", "/", "a">>
U_word == <<"n", "o", "t", "-", "a", "-", "u", "r", "l">>

\* what the user may type at the wizard's prompt
WizardUrls == {U_B, U_word}
AddUrls == {U_A, U_B, U_upper, U_httpx, U_ftp, U_word, << >>}

Naive(y, m, d, hh, mm) ==
    [kind |-> "naive", date |-> Date(y, m, d), hour |-> hh, minute |-> mm, shift |-> 0]
Aware(y, m, d, hh, mm, sh) ==
    [kind |-> "aware", date |-> Date(y, m, d), hour |-> hh, minute |-> mm, shift |-> sh]
AllDay(y, m, d) ==
    [kind |-> "date", date |-> Date(y, m, d), hour |-> 0, minute |-> 0, shift |-> 0]
DtList ==
    [kind |-> "list", date |-> Date(1, 1, 1), hour |-> 0, minute |-> 0, shift |-> 0]

Comp(uid, summary, dtstart) ==
    [uid |-> uid, summary |-> summary, dtstart |-> dtstart, url |-> None, desc_url |-> None]

\* a timed event, its all-day override with the same UID, a VEVENT without
\* DTSTART, one without UID in another zone, and one whose DTSTART is a list
C_x == Comp(<<"x">>, T_B, <<Naive(2024, 1, 15, 17, 0)>>)
C_x2 == Comp(<<"x">>, None, <<AllDay(2024, 1, 15)>>)
C_nostart == Comp(<<"y">>, T_A, None)
C_nouid == Comp(None, T_A, <<Aware(2024, 1, 31, 23, 30, 60)>>)
C_bad == Comp(<<"z">>, T_A, <<DtList>>)

R_fail == [ok |-> FALSE, comps |-> << >>]
R_empty == [ok |-> TRUE, comps |-> << >>]
R_one == [ok |-> TRUE, comps |-> <<C_x>>]
R_dup == [ok |-> TRUE, comps |-> <<C_x, C_nostart, C_x2>>]
R_partial == [ok |-> TRUE, comps |-> <<C_nouid, C_bad>>]

\* what a feed URL may answer
Responses == {R_fail, R_one, R_partial}
AggResponses == {R_dup, R_partial}

\* what the user may type at the event and routine wizards' prompts
TitleInputs == {T_A, T_B}
RoutineTitleInputs == {T_a}
TimeInputs == {<< >>, <<17, 0>>}
\* <<days of the week, end date>>: Mondays until 2024-02-10, or Wednesdays
\* and Fridays without an end
ScheduleInputs == {<<<<0>>, <<2024, 2, 10>>>>, <<<<2, 4>>, << >>>>}

\* a routine of a kind this version does not know, as routines.json may hold
R_monthly ==
    [id |-> <<"routine", -1>>, title |-> T_A, type |-> "monthly", days_of_week |-> <<0>>,
     time |-> <<9, 0>>, start_date |-> <<2024, 1, 1>>, end_date |-> None]

(***************************************************************************)
(* State                                                                   *)
(***************************************************************************)

VARIABLES
    sources_file,      \* ics_sources.json: the persisted list of feed URLs
    urls,              \* ICSClient.urls
    events,            \* ICSClient.events
    status,            \* ICSClient.status
    lock,              \* ICSClient.lock: its holder, or None
    ics_events_cache,  \* SmartCalendarApp.ics_events_cache
    ics_status,        \* SmartCalendarApp.ics_status
    ics_stop,          \* SmartCalendarApp.ics_stop
    pc,                \* where each thread is
    l_urls,            \* fetch_all's local urls, per thread
    l_i,               \* URLs of l_urls already processed, per thread
    all_events,        \* fetch_all's local all_events, per thread
    total,             \* fetch_all's local total, per thread
    errors,            \* fetch_all's local errors, per thread
    got_events,        \* the list get_events returned, per thread
    got_status,        \* the status read at line 295 / 694, per thread
    ret,               \* what add_source last returned: <<url given, ok, msg>>
    tick,              \* the for loop's counter in ics_loop
    cycles,            \* fetch_all calls started, per thread
    attempts,          \* history: <<url, response>> of each requests.get of the call
    published,         \* history: the <<events, status>> pairs swapped in so far
    user_events,       \* SmartCalendarApp.user_events
    routines,          \* SmartCalendarApp.routines
    view_year,
    view_month,
    selected_date,
    month_events_map,  \* draw_calendar's month_events_map
    events_for_selected,
    clock              \* int(time.time() * 1000)

client_vars == <<sources_file, urls, events, status, lock>>
feed_vars == <<events, status, lock>>
app_vars == <<ics_events_cache, ics_status, ics_stop>>
frame_vars == <<l_urls, l_i, all_events, total, errors, got_events, got_status, ret>>
loop_vars == <<tick, cycles>>
hist_vars == <<attempts, published>>
agg_vars == <<user_events, routines, view_year, view_month, selected_date,
              month_events_map, events_for_selected, clock>>
vars == <<client_vars, app_vars, pc, frame_vars, loop_vars, hist_vars, agg_vars>>

Threads == {"loop", "fg"}

\* line 296: range(15 * 60)
SLEEP_TICKS == 15 * 60

\* ICSClient.__init__ and lines 281-288 of SmartCalendarApp.__init__
InitFeed ==
    /\ sources_file \in {<< >>, <<U_A>>}
    /\ urls = sources_file
    /\ events = << >>
    /\ status = ST_sem_fontes
    /\ lock = None
    /\ ics_events_cache = << >>
    /\ ics_status = ST_carregando
    /\ ics_stop = FALSE
    /\ pc = [t \in Threads |-> IF t = "loop" THEN "while" ELSE "idle"]
    /\ l_urls = [t \in Threads |-> << >>]
    /\ l_i = [t \in Threads |-> 0]
    /\ all_events = [t \in Threads |-> << >>]
    /\ total = [t \in Threads |-> 0]
    /\ errors = [t \in Threads |-> 0]
    /\ got_events = [t \in Threads |-> << >>]
    /\ got_status = [t \in Threads |-> None]
    /\ ret = None
    /\ tick = 0
    /\ cycles = [t \in Threads |-> 0]
    /\ attempts = [t \in Threads |-> << >>]
    /\ published = {<<events, status>>}

\* lines 269-279 of SmartCalendarApp.__init__, routines.json holding rts
InitLocal(rts) ==
    /\ user_events = << >>
    /\ routines = rts
    /\ view_year = Today.year
    /\ view_month = Today.month
    /\ selected_date = Today
    /\ month_events_map = EmptyMap
    /\ events_for_selected = << >>
    /\ clock = 0

Init == InitFeed /\ InitLocal(<< >>)

(***************************************************************************)
(* ICSClient.fetch_all, step by step, run by thread t                      *)
(***************************************************************************)

\* a fetch_all that takes the lock before it loads the list
FetchLoad_UnderLock(t) ==
    /\ pc[t] = "load"
    /\ lock = None
    /\ lock' = <<t>>
    /\ l_urls' = [l_urls EXCEPT ![t] = sources_file]
    /\ l_i' = [l_i EXCEPT ![t] = 0]
    /\ all_events' = [all_events EXCEPT ![t] = << >>]
    /\ total' = [total EXCEPT ![t] = 0]
    /\ errors' = [errors EXCEPT ![t] = 0]
    /\ attempts' = [attempts EXCEPT ![t] = << >>]
    /\ pc' = [pc EXCEPT ![t] = IF sources_file = << >> THEN "set_events" ELSE "fetch"]
    /\ UNCHANGED <<sources_file, urls, events, status, app_vars, got_events, got_status,
                   ret, loop_vars, published, agg_vars>>

\* line 133, and lines 139-141 when the list is not empty
FetchLoad(t) ==
    /\ pc[t] = "load"
    /\ l_urls' = [l_urls EXCEPT ![t] = sources_file]
    /\ l_i' = [l_i EXCEPT ![t] = 0]
    /\ all_events' = [all_events EXCEPT ![t] = << >>]
    /\ total' = [total EXCEPT ![t] = 0]
    /\ errors' = [errors EXCEPT ![t] = 0]
    /\ attempts' = [attempts EXCEPT ![t] = << >>]
    /\ pc' = [pc EXCEPT ![t] = IF sources_file = << >> THEN "acquire" ELSE "fetch"]
    /\ UNCHANGED <<client_vars, app_vars, got_events, got_status, ret, loop_vars,
                   published, agg_vars>>

\* lines 142-178: one URL of the list, the network answering resp
FetchUrl(t) ==
    /\ pc[t] = "fetch"
    /\ l_i[t] < Len(l_urls[t])
    /\ \E resp \in Responses :
          LET url == l_urls[t][l_i[t] + 1]
              r == FetchOne(l_i[t], url, resp, all_events[t], total[t], errors[t])
          IN /\ all_events' = [all_events EXCEPT ![t] = r.all_events]
             /\ total' = [total EXCEPT ![t] = r.total]
             /\ errors' = [errors EXCEPT ![t] = r.errors]
             /\ attempts' = [attempts EXCEPT ![t] = Append(@, <<url, resp>>)]
    /\ l_i' = [l_i EXCEPT ![t] = @ + 1]
    /\ pc' = [pc EXCEPT ![t] = IF l_i[t] + 1 = Len(l_urls[t]) THEN "acquire" ELSE "fetch"]
    /\ UNCHANGED <<client_vars, app_vars, l_urls, got_events, got_status, ret, loop_vars,
                   published, agg_vars>>

\* a fetch_all that swaps without taking the lock
FetchAcquire_NoLock(t) ==
    /\ pc[t] = "acquire"
    /\ pc' = [pc EXCEPT ![t] = "set_events"]
    /\ UNCHANGED <<client_vars, app_vars, frame_vars, loop_vars, hist_vars, agg_vars>>

\* lines 135 and 179: with self.lock
FetchAcquire(t) ==
    /\ pc[t] = "acquire"
    /\ lock = None
    /\ lock' = <<t>>
    /\ pc' = [pc EXCEPT ![t] = "set_events"]
    /\ UNCHANGED <<sources_file, urls, events, status, app_vars, frame_vars, loop_vars,
                   hist_vars, agg_vars>>

\* lines 136 and 180
FetchSetEvents(t) ==
    /\ pc[t] = "set_events"
    /\ events' = IF l_urls[t] = << >> THEN << >> ELSE all_events[t]
    /\ pc' = [pc EXCEPT ![t] = "set_status"]
    /\ UNCHANGED <<sources_file, urls, status, lock, app_vars, frame_vars, loop_vars,
                   hist_vars, agg_vars>>

\* lines 137 and 181-186
FetchSetStatus(t) ==
    /\ pc[t] = "set_status"
    /\ status' = IF l_urls[t] = << >> THEN ST_sem_fontes ELSE StatusOf(total[t], errors[t])
    /\ published' = published \cup {<<events, status'>>}
    /\ pc' = [pc EXCEPT ![t] = "release"]
    /\ UNCHANGED <<sources_file, urls, events, lock, app_vars, frame_vars, loop_vars,
                   attempts, agg_vars>>

\* leaving the with block; fetch_all returns and its frame is gone
FetchRelease(t) ==
    /\ pc[t] = "release"
    /\ lock' = None
    /\ l_urls' = [l_urls EXCEPT ![t] = << >>]
    /\ l_i' = [l_i EXCEPT ![t] = 0]
    /\ all_events' = [all_events EXCEPT ![t] = << >>]
    /\ total' = [total EXCEPT ![t] = 0]
    /\ errors' = [errors EXCEPT ![t] = 0]
    /\ attempts' = [attempts EXCEPT ![t] = << >>]
    /\ pc' = [pc EXCEPT ![t] = "get_events"]
    /\ UNCHANGED <<sources_file, urls, events, status, app_vars, got_events, got_status,
                   ret, loop_vars, published, agg_vars>>

(***************************************************************************)
(* Publishing: lines 294-295 and 693-694                                   *)
(***************************************************************************)

\* line 189: with self.lock
GetEventsAcquire(t) ==
    /\ pc[t] = "get_events"
    /\ lock = None
    /\ lock' = <<t>>
    /\ pc' = [pc EXCEPT ![t] = "copy"]
    /\ UNCHANGED <<sources_file, urls, events, status, app_vars, frame_vars, loop_vars,
                   hist_vars, agg_vars>>

\* line 190: return list(self.events)
GetEventsCopy(t) ==
    /\ pc[t] = "copy"
    /\ got_events' = [got_events EXCEPT ![t] = events]
    /\ lock' = None
    /\ pc' = [pc EXCEPT ![t] = "store_cache"]
    /\ UNCHANGED <<sources_file, urls, events, status, app_vars, l_urls, l_i, all_events,
                   total, errors, got_status, ret, loop_vars, hist_vars, agg_vars>>

\* lines 294 and 693: self.ics_events_cache = <the list returned>
StoreCache(t) ==
    /\ pc[t] = "store_cache"
    /\ ics_events_cache' = got_events[t]
    /\ pc' = [pc EXCEPT ![t] = "read_status"]
    /\ UNCHANGED <<client_vars, ics_status, ics_stop, frame_vars, loop_vars, hist_vars,
                   agg_vars>>

\* lines 295 and 694: self.ics_client.status is read, without the lock
ReadStatus(t) ==
    /\ pc[t] = "read_status"
    /\ got_status' = [got_status EXCEPT ![t] = status]
    /\ pc' = [pc EXCEPT ![t] = "store_status"]
    /\ UNCHANGED <<client_vars, app_vars, l_urls, l_i, all_events, total, errors,
                   got_events, ret, loop_vars, hist_vars, agg_vars>>

\* lines 295 and 694: self.ics_status = <the status read>; the temporaries are gone
StoreStatus(t) ==
    /\ pc[t] = "store_status"
    /\ ics_status' = got_status[t]
    /\ got_events' = [got_events EXCEPT ![t] = << >>]
    /\ got_status' = [got_status EXCEPT ![t] = None]
    /\ pc' = [pc EXCEPT ![t] = IF t = "loop" THEN "for" ELSE "idle"]
    /\ tick' = IF t = "loop" THEN 0 ELSE tick
    /\ UNCHANGED <<client_vars, ics_events_cache, ics_stop, l_urls, l_i, all_events, total,
                   errors, ret, cycles, hist_vars, agg_vars>>

(***************************************************************************)
(* SmartCalendarApp.ics_loop: the refresh thread                           *)
(***************************************************************************)

\* line 292: while not self.ics_stop, in a run of at most n cycles
LoopWhileUpTo(n) ==
    /\ pc["loop"] = "while"
    /\ IF ics_stop
       THEN /\ pc' = [pc EXCEPT !["loop"] = "done"]
            /\ UNCHANGED cycles
       ELSE /\ cycles["loop"] < n
            /\ pc' = [pc EXCEPT !["loop"] = "load"]
            /\ cycles' = [cycles EXCEPT !["loop"] = @ + 1]
    /\ UNCHANGED <<client_vars, app_vars, frame_vars, tick, hist_vars, agg_vars>>

LoopWhile == LoopWhileUpTo(MaxCycles)

\* a sleep that does not look at ics_stop
LoopFor_NoBreak ==
    /\ pc["loop"] = "for"
    /\ pc' = [pc EXCEPT !["loop"] = IF tick >= SLEEP_TICKS THEN "while" ELSE "sleep"]
    /\ UNCHANGED <<client_vars, app_vars, frame_vars, loop_vars, hist_vars, agg_vars>>

\* a sleep of one minute instead of fifteen
LoopFor_OneMinute ==
    /\ pc["loop"] = "for"
    /\ pc' = [pc EXCEPT !["loop"] =
                IF tick >= 60 THEN "while"
                ELSE IF ics_stop THEN "while"
                ELSE "sleep"]
    /\ UNCHANGED <<client_vars, app_vars, frame_vars, loop_vars, hist_vars, agg_vars>>

\* lines 296-298: the next value of range(15 * 60), and the stop check
LoopFor ==
    /\ pc["loop"] = "for"
    /\ pc' = [pc EXCEPT !["loop"] =
                IF tick >= SLEEP_TICKS THEN "while"
                ELSE IF ics_stop THEN "while"
                ELSE "sleep"]
    /\ UNCHANGED <<client_vars, app_vars, frame_vars, loop_vars, hist_vars, agg_vars>>

\* line 299: time.sleep(1)
LoopSleep ==
    /\ pc["loop"] = "sleep"
    /\ tick' = tick + 1
    /\ pc' = [pc EXCEPT !["loop"] = "for"]
    /\ UNCHANGED <<client_vars, app_vars, frame_vars, cycles, hist_vars, agg_vars>>

(***************************************************************************)
(* The foreground                                                          *)
(***************************************************************************)

\* lines 686-690 of add_ics_source_wizard: the prompt answered with url, then
\* add_source; the wizard goes on to fetch_all whatever add_source returned
WizardAdd ==
    /\ pc["fg"] = "idle"
    /\ cycles["fg"] < MaxWizards
    /\ \E url \in WizardUrls :
          LET r == add_source(url, urls, sources_file) IN
          /\ urls' = r.urls
          /\ sources_file' = r.file
          /\ ret' = <<url, r.ok, r.msg>>
    /\ cycles' = [cycles EXCEPT !["fg"] = @ + 1]
    /\ pc' = [pc EXCEPT !["fg"] = "load"]
    /\ UNCHANGED <<feed_vars, app_vars, l_urls, l_i, all_events, total, errors, got_events,
                   got_status, tick, hist_vars, agg_vars>>

\* lines 305-309 and 351: the run loop ends and sets ics_stop
Quit ==
    /\ pc["fg"] = "idle"
    /\ ics_stop' = TRUE
    /\ pc' = [pc EXCEPT !["fg"] = "exited"]
    /\ UNCHANGED <<client_vars, ics_events_cache, ics_status, frame_vars, loop_vars,
                   hist_vars, agg_vars>>

FetchStep(t) ==
    \/ FetchLoad(t)
    \/ FetchUrl(t)
    \/ FetchAcquire(t)
    \/ FetchSetEvents(t)
    \/ FetchSetStatus(t)
    \/ FetchRelease(t)

PublishStep(t) ==
    \/ GetEventsAcquire(t)
    \/ GetEventsCopy(t)
    \/ StoreCache(t)
    \/ ReadStatus(t)
    \/ StoreStatus(t)

LoopNext == FetchStep("loop") \/ PublishStep("loop") \/ LoopWhile \/ LoopFor \/ LoopSleep

FgNext == FetchStep("fg") \/ PublishStep("fg") \/ WizardAdd \/ Quit

Next == LoopNext \/ FgNext

Spec == Init /\ [][Next]_vars

(***************************************************************************)
(* The persisted list read by safe_load_json                               *)
(***************************************************************************)

\* lines 47-54: ics_sources.json is removed or no longer parses, and
\* safe_load_json answers its default, the empty list
SourcesFileLost ==
    /\ sources_file # << >>
    /\ sources_file' = << >>
    /\ UNCHANGED <<urls, events, status, lock, app_vars, pc, frame_vars, loop_vars,
                   hist_vars, agg_vars>>

\* the first refresh cycle racing the foreground: the behaviours in which the
\* refresh thread has not yet gone to sleep
CycleNext ==
    \/ FetchStep("loop") \/ PublishStep("loop") \/ LoopWhile
    \/ FgNext
    \/ SourcesFileLost

SpecCycle == Init /\ [][CycleNext]_vars

\* the steps a thread takes while it holds the lock, and the taking of it in
\* get_events
LockStep(t) ==
    \/ FetchSetEvents(t) \/ FetchSetStatus(t) \/ FetchRelease(t)
    \/ GetEventsAcquire(t) \/ GetEventsCopy(t)

\* the first refresh cycle racing the foreground, the persisted list kept
LockNext ==
    \/ FetchStep("loop") \/ PublishStep("loop") \/ LoopWhile
    \/ FetchStep("fg") \/ PublishStep("fg") \/ WizardAdd

\* a thread in a with self.lock block goes on, while requests.get may take
\* any time or never return
SpecLock == Init /\ [][LockNext]_vars /\ \A t \in Threads : WF_vars(LockStep(t))

\* the refresh thread and the end of the run loop
StopNext == LoopNext \/ Quit

SpecStop == Init /\ [][StopNext]_vars /\ WF_vars(LoopNext)

\* the refresh thread alone over several cycles, and the end of the run loop
RefreshNext ==
    \/ FetchStep("loop") \/ PublishStep("loop")
    \/ LoopWhileUpTo(MaxRefresh) \/ LoopFor \/ LoopSleep
    \/ Quit

RefreshSteps ==
    \/ FetchStep("loop") \/ PublishStep("loop")
    \/ LoopWhileUpTo(MaxRefresh) \/ LoopFor \/ LoopSleep

SpecRefresh == Init /\ [][RefreshNext]_vars /\ WF_vars(RefreshSteps)

(***************************************************************************)
(* ICSClient.add_source called with whatever the user typed                *)
(***************************************************************************)

AddSource ==
    /\ pc["fg"] = "idle"
    /\ \E url \in AddUrls :
          LET r == add_source(url, urls, sources_file) IN
          /\ urls' = r.urls
          /\ sources_file' = r.file
          /\ ret' = <<url, r.ok, r.msg>>
    /\ UNCHANGED <<feed_vars, app_vars, pc, l_urls, l_i, all_events, total, errors,
                   got_events, got_status, loop_vars, hist_vars, agg_vars>>

SpecAdd == Init /\ [][AddSource]_vars

(***************************************************************************)
(* The foreground's local handlers; each ends with the frame's draw        *)
(***************************************************************************)

\* parse_time_hhmm, of a string already split on ":" into its numbers
parse_time_hhmm(s) ==
    IF s = << >> THEN None
    ELSE IF Len(s) # 2 THEN None
    ELSE IF 0 <= s[1] /\ s[1] <= 23 /\ 0 <= s[2] /\ s[2] <= 59 THEN <<s[1], s[2]>>
    ELSE None

\* lines 453 and 476: draw_calendar recomputes the index and the selected day's list
Draw ==
    /\ month_events_map' =
          events_map_for_month(user_events', ics_events_cache', routines',
                               view_year', view_month')
    /\ events_for_selected' =
          events_for_date(user_events', ics_events_cache', routines', selected_date')

\* add_user_event_wizard, the date prompt left at its default
AddUserEvent ==
    /\ pc["fg"] = "idle"
    /\ clock < MaxCreated
    /\ \E title \in TitleInputs, time_str \in TimeInputs :
          LET d == from_date_str(to_date_str(selected_date))
              tm == IF time_str # << >> THEN parse_time_hhmm(time_str) ELSE None
              ev == [id |-> <<"user", clock>>,
                     title |-> title,
                     date |-> to_date_str(d),
                     time |-> IF tm # None THEN <<tm[1], tm[2]>> ELSE None,
                     source |-> "user",
                     meta |-> [link |-> None, feed |-> None],
                     color |-> "user"]
          IN user_events' = Append(user_events, ev)
    /\ clock' = clock + 1
    /\ UNCHANGED <<client_vars, app_vars, pc, frame_vars, loop_vars, hist_vars, routines,
                   view_year, view_month, selected_date>>
    /\ Draw

\* add_routine_wizard, the time and start date prompts left at their defaults
AddRoutine ==
    /\ pc["fg"] = "idle"
    /\ clock < MaxCreated
    /\ \E title \in RoutineTitleInputs, sched \in ScheduleInputs :
          LET days_idx == sched[1]
              end_str == sched[2]
              tm == parse_time_hhmm(<<7, 0>>)
              start_date == from_date_str(to_date_str(selected_date))
              routine == [id |-> <<"routine", clock>>,
                          title |-> title,
                          type |-> "weekly",
                          days_of_week |-> days_idx,
                          time |-> <<tm[1], tm[2]>>,
                          start_date |-> to_date_str(start_date),
                          end_date |-> IF end_str # << >>
                                       THEN to_date_str(from_date_str(end_str))
                                       ELSE None]
          IN routines' = Append(routines, routine)
    /\ clock' = clock + 1
    /\ UNCHANGED <<client_vars, app_vars, pc, frame_vars, loop_vars, hist_vars, user_events,
                   view_year, view_month, selected_date>>
    /\ Draw

\* months between the view and today's month
ViewOffset(y, m) == (y - Today.year) * 12 + (m - Today.month)

\* change_month(delta), on the left and right arrow keys
ChangeMonth ==
    /\ pc["fg"] = "idle"
    /\ \E delta \in {-1, 1} :
          LET m0 == view_month + delta
              m == IF m0 < 1 THEN m0 + 12 ELSE IF m0 > 12 THEN m0 - 12 ELSE m0
              y == IF m0 < 1 THEN view_year - 1 ELSE IF m0 > 12 THEN view_year + 1
                   ELSE view_year
          IN /\ ViewOffset(y, m) \in (-NavSpan)..NavSpan
             /\ view_month' = m
             /\ view_year' = y
    /\ UNCHANGED <<client_vars, app_vars, pc, frame_vars, loop_vars, hist_vars, user_events,
                   routines, selected_date, clock>>
    /\ Draw

\* lines 139-178 run to the end: the loop over urls from index k on, resps[k]
\* being what the k-th URL answers
RECURSIVE FetchFrom(_, _, _, _)
FetchFrom(us, k, resps, acc) ==
    IF k > Len(us) THEN acc
    ELSE FetchFrom(us, k + 1, resps,
                   FetchOne(k - 1, us[k], resps[k], acc.all_events, acc.total, acc.errors))

\* add_ics_source_wizard run while the refresh thread sleeps: add_source,
\* fetch_all, and the two assignments of lines 693-694
WizardRun ==
    /\ pc["fg"] = "idle"
    /\ lock = None
    /\ cycles["fg"] < MaxWizards
    /\ cycles' = [cycles EXCEPT !["fg"] = @ + 1]
    /\ \E url \in WizardUrls :
          LET r == add_source(url, urls, sources_file) IN
          /\ urls' = r.urls
          /\ sources_file' = r.file
          /\ ret' = <<url, r.ok, r.msg>>
          /\ \E resps \in [1..Len(r.file) -> AggResponses] :
                LET f == FetchFrom(r.file, 1, resps,
                                   [all_events |-> << >>, total |-> 0, errors |-> 0])
                IN /\ events' = IF r.file = << >> THEN << >> ELSE f.all_events
                   /\ status' = IF r.file = << >> THEN ST_sem_fontes
                                ELSE StatusOf(f.total, f.errors)
    /\ published' = published \cup {<<events', status'>>}
    /\ ics_events_cache' = events'
    /\ ics_status' = status'
    /\ UNCHANGED <<lock, ics_stop, pc, l_urls, l_i, all_events, total, errors, got_events,
                   got_status, tick, attempts, user_events, routines, view_year,
                   view_month, selected_date, clock>>
    /\ Draw

AggNext == AddUserEvent \/ AddRoutine \/ ChangeMonth \/ WizardRun

\* no feed configured yet, and routines.json holding the routine of unknown kind
InitAgg == InitFeed /\ sources_file = << >> /\ InitLocal(<<R_monthly>>)

SpecAgg == InitAgg /\ [][AggNext]_vars

(***************************************************************************)
(* Properties                                                              *)
(***************************************************************************)

Minutes(ev) == ev.time[1] * 60 + ev.time[2]

\* C1: in every date's sequence of the month index, every timed occurrence
\* precedes every all-day one whatever its hour, timed occurrences are in
\* non-decreasing time order, and occurrences of equal time are in ascending
\* title order.
C1_TimedBeforeAllDay ==
    \A ds \in DOMAIN month_events_map :
        LET lst == month_events_map[ds] IN
        \A i, j \in 1..Len(lst) :
            i < j =>
                /\ lst[i].time = None => lst[j].time = None
                /\ (lst[i].time # None /\ lst[j].time # None) => Minutes(lst[i]) <= Minutes(lst[j])
                /\ lst[i].time = lst[j].time => ~StrLess(lst[j].title, lst[i].title)

\* C2: the pair a thread has read from the client, its list by get_events and
\* its status by the read that follows, is the <<events, status>> of one fetch
\* cycle (or the initial snapshot).
C2_ReaderPairFromOneCycle ==
    \A t \in Threads :
        pc[t] = "store_status" => <<got_events[t], got_status[t]>> \in published

\* a URL's answer counts as a failure: the request or the parse raises, or
\* the walk over its components does
Failed(resp) ==
    \/ ~resp.ok
    \/ \E k \in 1..Len(resp.comps) :
          resp.comps[k].dtstart # None /\ DtRaises(resp.comps[k].dtstart)

FailedAttempts(t) == {k \in 1..Len(attempts[t]) : Failed(attempts[t][k][2])}

\* <<title, date, time>> of the occurrences a feed's answer holds
Occurrences(resp) ==
    LET cs == SelectSeq(resp.comps, LAMBDA c : c.dtstart # None) IN
    [k \in 1..Len(cs) |->
        <<IF cs[k].summary # None THEN cs[k].summary ELSE T_Evento,
          to_date_str(dt_to_local_date_time(cs[k].dtstart[1])[1]),
          dt_to_local_date_time(cs[k].dtstart[1])[2]>>]

\* the same of the snapshot's occurrences that came from the feed of index i
SnapshotOccurrences(evs, i) ==
    LET es == SelectSeq(evs, LAMBDA e : e.id[2] = i) IN
    [k \in 1..Len(es) |-> <<es[k].title, es[k].date, es[k].time>>]

\* C3: a fetch_all over a non-empty list attempts every URL once, in list
\* order, whatever fails; the snapshot it swaps in holds all occurrences of
\* every source that succeeded, and its failure count is the number of URLs
\* that failed.
C3_FailuresDoNotAbort ==
    \A t \in Threads :
        /\ pc[t] = "fetch" => Len(attempts[t]) = l_i[t]
        /\ (pc[t] = "release" /\ l_urls[t] # << >>) =>
              /\ Len(attempts[t]) = Len(l_urls[t])
              /\ \A k \in 1..Len(l_urls[t]) : attempts[t][k][1] = l_urls[t][k]
              /\ \A k \in 1..Len(attempts[t]) :
                    ~Failed(attempts[t][k][2]) =>
                        SnapshotOccurrences(events, k - 1) = Occurrences(attempts[t][k][2])
              /\ errors[t] = Cardinality(FailedAttempts(t))

C3_Witness ==
    \E t \in Threads :
        /\ pc[t] = "release"
        /\ Len(l_urls[t]) = 2
        /\ Failed(attempts[t][1][2])
        /\ ~Failed(attempts[t][2][2])
        /\ events # << >>

ST_erro == <<"ICS: erro ao carregar fontes">>

\* the class of a status string
StatusClass(st) ==
    IF st = ST_sem_fontes THEN "no sources"
    ELSE IF st = ST_erro THEN "total failure"
    ELSE IF Len(st) = 5 /\ st[3] = " eventos, " /\ st[5] = " falhas" THEN "partial success"
    ELSE IF Len(st) = 3 /\ st[3] = " eventos" THEN "clean"
    ELSE "other"

\* C4: the status a fetch_all has swapped in is "no sources" iff the list it
\* loaded was empty (and then the snapshot is empty), "total failure" iff
\* some URL failed and the snapshot is empty, "partial success" iff some URL
\* failed and the snapshot is not empty, "clean" iff the list was not empty
\* and no URL failed.
C4_StatusClasses ==
    \A t \in Threads :
        pc[t] = "release" =>
            LET failures == Cardinality(FailedAttempts(t))
                n == Len(events)
                class == StatusClass(status)
            IN /\ class \in {"no sources", "total failure", "partial success", "clean"}
               /\ class = "no sources" <=> l_urls[t] = << >>
               /\ class = "no sources" => events = << >>
               /\ class = "total failure" <=> (failures > 0 /\ n = 0)
               /\ class = "partial success" <=> (failures > 0 /\ n > 0)
               /\ class = "clean" <=> (l_urls[t] # << >> /\ failures = 0)
               /\ class = "partial success" => (status[2] = n /\ status[4] = failures)
               /\ class = "clean" => status[2] = n

\* a cycle over an empty list replaces a snapshot that held occurrences
C4_Witness ==
    \E t \in Threads :
        /\ pc[t] = "release"
        /\ l_urls[t] = << >>
        /\ status = ST_sem_fontes
        /\ events = << >>
        /\ \E p \in published : p[1] # << >>

\* C5: add_source answers failure to a URL whose scheme is not http or https
\* and leaves the persisted list as it was; what it inserts has such a scheme.
C5_RejectsOtherSchemes ==
    [][ret' # None =>
          /\ ~HasHttpScheme(ret'[1]) => (ret'[2] = FALSE /\ sources_file' = sources_file)
          /\ \A k \in 1..Len(sources_file') :
                k > Len(sources_file) => HasHttpScheme(sources_file'[k])]_vars

InList(url, lst) == \E k \in 1..Len(lst) : lst[k] = url

\* C6: the persisted list never holds a URL twice; add_source of a URL already
\* in it changes nothing and answers success; a URL it inserts goes last.
C6_AddSourceIdempotent ==
    /\ [](\A i, j \in 1..Len(sources_file) : i # j => sources_file[i] # sources_file[j])
    /\ [][ret' # None =>
            LET url == Strip(ret'[1]) IN
            /\ InList(url, sources_file) => (sources_file' = sources_file /\ ret'[2] = TRUE)
            /\ (ret'[2] = TRUE /\ ~InList(url, sources_file)) =>
                   sources_file' = Append(sources_file, url)
            /\ ret'[2] = FALSE => sources_file' = sources_file]_vars

\* the last call gave the list's first URL again, after another was inserted
C6_Witness ==
    /\ Len(sources_file) >= 2
    /\ ret # None
    /\ ret[2] = TRUE
    /\ Strip(ret[1]) = sources_file[1]

\* the date of day d of the month in view qualifies for routine r
Qualifies(r, d) ==
    /\ r.type = "weekly"
    /\ \E k \in 1..Len(r.days_of_week) : r.days_of_week[k] = weekday(d)
    /\ DateLE(from_date_str(r.start_date), d)
    /\ (r.end_date = None \/ DateLE(d, from_date_str(r.end_date)))

\* the occurrences of routine r in the index, under the date string ds
RoutineHits(r, ds) ==
    IF ds \in DOMAIN month_events_map
    THEN SelectSeq(month_events_map[ds],
                   LAMBDA e : e.source = "routine" /\ e.id[2] = r.id)
    ELSE << >>

\* C7: for every routine and every date of the month in view, the expansion
\* holds exactly one occurrence of the routine on that date, with the
\* routine's title and time, when the routine is weekly, the date's weekday is
\* among its days and the date lies within its start and end; it holds none
\* otherwise, and none outside the month.
C7_ExpansionExact ==
    /\ \A k \in 1..Len(routines) :
          \A day \in 1..DaysInMonth(view_year, view_month) :
              LET r == routines[k]
                  d == Date(view_year, view_month, day)
                  hits == RoutineHits(r, to_date_str(d))
              IN IF Qualifies(r, d)
                 THEN /\ Len(hits) = 1
                      /\ hits[1].id = <<"routine", r.id, to_date_str(d)>>
                      /\ hits[1].title = r.title
                      /\ hits[1].time = r.time
                      /\ hits[1].date = to_date_str(d)
                 ELSE hits = << >>
    /\ \A ds \in DOMAIN month_events_map :
          \A i \in 1..Len(month_events_map[ds]) :
              LET e == month_events_map[ds][i] IN
              e.source = "routine" =>
                  /\ e.date = ds
                  /\ ds[1] = view_year /\ ds[2] = view_month
                  /\ \E k \in 1..Len(routines) : routines[k].id = e.id[2]

\* February 2024 with a Monday routine ending on the 10th: the 5th is there,
\* the 12th is not, and the routine of unknown kind gave nothing
C7_Witness ==
    /\ view_year = 2024 /\ view_month = 2
    /\ \E k \in 1..Len(routines) :
          /\ routines[k].type = "weekly"
          /\ routines[k].days_of_week = <<0>>
          /\ routines[k].end_date = <<2024, 2, 10>>
          /\ Len(RoutineHits(routines[k], <<2024, 2, 5>>)) = 1
          /\ RoutineHits(routines[k], <<2024, 2, 12>>) = << >>
    /\ \E k \in 1..Len(routines) : routines[k].type # "weekly"

\* C8: every key of the month index is a date of the month in view and maps
\* to a non-empty sequence, and events_for_date gives the entry of its date,
\* or the empty sequence when the index has none.
C8_KeysInsideMonth ==
    /\ \A ds \in DOMAIN month_events_map :
          /\ DateStrOk(ds)
          /\ ds[1] = view_year
          /\ ds[2] = view_month
          /\ Len(month_events_map[ds]) > 0
          /\ \A i \in 1..Len(month_events_map[ds]) : month_events_map[ds][i].date = ds
    /\ (selected_date.year = view_year /\ selected_date.month = view_month) =>
          events_for_selected =
              IF to_date_str(selected_date) \in DOMAIN month_events_map
              THEN month_events_map[to_date_str(selected_date)]
              ELSE << >>

\* another month is in view than the one the user's events are in
C8_Witness ==
    /\ user_events # << >>
    /\ ics_events_cache # << >>
    /\ view_month = 2
    /\ DOMAIN month_events_map # {}
    /\ events_for_selected # << >>

\* C9: no two occurrences of the month index have the same id.
C9_IdsUnique ==
    \A ds1, ds2 \in DOMAIN month_events_map :
        \A i \in 1..Len(month_events_map[ds1]), j \in 1..Len(month_events_map[ds2]) :
            (ds1 # ds2 \/ i # j) => month_events_map[ds1][i].id # month_events_map[ds2][j].id

InFlight == pc["loop"] \in {"load", "fetch", "acquire", "set_events", "set_status", "release"}

\* C10: once ics_stop is set the refresh thread ends: it starts no further
\* sleep and no further cycle, a fetch in flight is completed and published,
\* and the thread reaches its end.
C10_StopEndsLoop ==
    /\ [][(ics_stop /\ pc["loop"] = "for") => pc'["loop"] # "sleep"]_vars
    /\ [][(ics_stop /\ pc["loop"] = "while") => pc'["loop"] \in {"while", "done"}]_vars
    /\ [][(ics_stop /\ pc["loop"] = "sleep") => pc'["loop"] \in {"sleep", "for"}]_vars
    /\ [][pc'["loop"] = "done" => pc["loop"] \in {"while", "done"}]_vars
    /\ (ics_stop /\ InFlight) ~> (ics_stop /\ pc["loop"] = "for")
    /\ ics_stop ~> (pc["loop"] = "done")

\* stopped in the middle of the sleep
C10_Witness ==
    /\ ics_stop
    /\ pc["loop"] = "done"
    /\ tick > 0
    /\ tick < SLEEP_TICKS

\* C11: the refresh thread fetches first without any sleep before; when it
\* sleeps, the cycle before is published; a later cycle starts only when the
\* 15 * 60 ticks since that publication have all elapsed and no stop is
\* asked; and while no stop is asked the next cycle does start.
C11_FetchThenFullInterval ==
    /\ [](cycles["loop"] = 0 => (tick = 0 /\ pc["loop"] \in {"while", "done"}))
    /\ [](pc["loop"] \in {"for", "sleep"} =>
            /\ cycles["loop"] >= 1
            /\ ics_events_cache = events
            /\ ics_status = status
            /\ <<ics_events_cache, ics_status>> \in published)
    /\ [][(pc'["loop"] = "load" /\ pc["loop"] # "load") =>
            /\ ~ics_stop
            /\ pc["loop"] = "while"
            /\ cycles["loop"] >= 1 => tick = 15 * 60]_vars
    /\ [][tick' # tick =>
            \/ pc["loop"] = "sleep" /\ tick' = tick + 1 /\ tick' <= 15 * 60
            \/ pc["loop"] = "store_status" /\ tick' = 0]_vars
    /\ [][pc'["loop"] = "sleep" => pc["loop"] \in {"sleep", "for"}]_vars
    /\ (pc["loop"] = "while" /\ cycles["loop"] < MaxRefresh) ~> (ics_stop \/ pc["loop"] = "load")
    /\ (pc["loop"] = "for" /\ cycles["loop"] < MaxRefresh) ~> (ics_stop \/ pc["loop"] = "load")

\* the second cycle starts, the whole interval slept
C11_Witness ==
    /\ ~ics_stop
    /\ pc["loop"] = "load"
    /\ cycles["loop"] = 2
    /\ tick = 15 * 60

InFetchAll(t) == pc[t] \in {"load", "fetch", "acquire", "set_events", "set_status", "release"}

\* C12: the foreground thread is never inside fetch_all.
C12_NoFetchOnForeground == ~InFetchAll("fg")

\* C13: the lock is held only by a thread that is swapping the snapshot in or
\* copying it out, never by one that loads the list or fetches; and a thread
\* that calls get_events gets its copy whether or not the other thread's
\* fetch ever ends.
C13_LockOnlyForSwap ==
    /\ [](lock # None =>
            /\ lock[1] \in Threads
            /\ pc[lock[1]] \in {"set_events", "set_status", "release", "copy"})
    /\ [](\A t \in Threads :
            pc[t] \in {"set_events", "set_status", "release", "copy"} => lock = <<t>>)
    /\ \A t \in Threads : (pc[t] = "get_events") ~> (pc[t] = "store_cache")

\* one thread holds the lock for its copy while the other is between two URLs
C13_Witness ==
    \E t, u \in Threads :
        /\ pc[t] = "copy"
        /\ lock = <<t>>
        /\ pc[u] = "fetch"
        /\ l_i[u] = 1
        /\ Len(l_urls[u]) = 2

\* what the fetch_all of thread t, at its end, has to have swapped in
CycleResult(t) ==
    IF l_urls[t] = << >>
    THEN <<(<< >>), ST_sem_fontes>>
    ELSE <<all_events[t],
           IF errors[t] > 0 /\ total[t] > 0
           THEN <<"ICS: ", total[t], " eventos, ", errors[t], " falhas">>
           ELSE IF errors[t] > 0 THEN <<"ICS: erro ao carregar fontes">>
           ELSE <<"ICS: ", total[t], " eventos">>>>

\* C14: the stored snapshot changes only in the swap of the thread that holds
\* the lock; at the end of a swap it is the whole result of that call; and
\* whenever the lock is free it is the result of one call, or the initial
\* snapshot.
C14_SwapIsAtomic ==
    /\ [][(events' # events \/ status' # status) =>
            /\ lock # None
            /\ lock' = lock
            /\ pc[lock[1]] \in {"set_events", "set_status"}
            /\ pc'[lock[1]] # pc[lock[1]]]_vars
    /\ [](\A t \in Threads : pc[t] = "release" => <<events, status>> = CycleResult(t))
    /\ [](lock = None => <<events, status>> \in published)
    /\ [][published' # published =>
            \E t \in Threads :
                /\ pc'[t] = "release" /\ pc[t] = "set_status"
                /\ published' = published \cup {CycleResult(t)}]_vars

\* one thread has swapped and the other waits to swap a different result
C14_Witness ==
    \E t, u \in Threads :
        /\ pc[t] = "release"
        /\ pc[u] = "acquire"
        /\ events # << >>
        /\ all_events[u] # << >>
        /\ all_events[u] # events

\* C15: the snapshot a fetch_all swaps in holds no occurrence of a source it
\* counted as failed, and the total of its status is the number of
\* occurrences of the sources that succeeded.
C15_FailedSourceSkipped ==
    \A t \in Threads :
        (pc[t] = "release" /\ l_urls[t] # << >>) =>
            /\ \A k \in FailedAttempts(t) : SnapshotOccurrences(events, k - 1) = << >>
            /\ \A j \in 1..Len(events) : (events[j].id[2] + 1) \notin FailedAttempts(t)
            /\ StatusClass(status) \in {"partial success", "clean"} => status[2] = Len(events)

\* thread t is not between the start of a fetch_all and the end of the
\* publication that follows it
Quiescent(t) ==
    IF t = "loop"
    THEN pc[t] \in {"for", "sleep", "while", "done"} /\ cycles[t] >= 1
    ELSE pc[t] \in {"idle", "exited"}

\* C16: when no thread is inside a fetch-and-publish sequence, the cache the
\* view reads is the client's snapshot.
C16_CacheIsCurrent ==
    (\A t \in Threads : Quiescent(t)) =>
        /\ ics_events_cache = events
        /\ ics_status = status

====
